---------------------------- MODULE Spec2Model ----------------------------
(***************************************************************************)
(* A model of the PromptPay QR payment manager of good-sale-pos-backend    *)
(* (src/src/qr_payment.py): the EMV/PromptPay payload encoder with its     *)
(* merchant-identifier normalisation, UTF-8 truncation and CRC16.          *)
(*                                                                         *)
(* A Python str is a sequence of characters; a character is a one-token    *)
(* string ("A", "7", or "U+0E01" for a character outside ASCII).  A bytes  *)
(* object is a sequence of integers 0..255.  An operation that can raise   *)
(* returns a record [ok |-> BOOLEAN, val |-> ...].                         *)
(*                                                                         *)
(* Around the encoder: the pending payments of the manager with its        *)
(* methods generate_promptpay_qr, verify_payment, cancel_payment,          *)
(* get_payment_status and cleanup_expired_payments, and the /generate-qr   *)
(* route (src/src/routes/payment.py) that calls the manager.  Times are    *)
(* minutes on a clock.                                                     *)
(***************************************************************************)
EXTENDS Integers, Sequences, FiniteSets, TLC

VARIABLES
    promptpay_id,     \* self.promptpay_id   (configuration, a str)
    merchant_name,    \* self.merchant_name  (configuration, a str)
    enc_amount,       \* the arguments of the encoder call
    enc_ref1,
    enc_ref2,
    payload,          \* what the encoder call returned (a str)
    formatted_id,     \* what _format_promptpay_id returned
    returned,         \* the methods that have returned
    pending_payments, \* self.pending_payments: payment_id -> payment_data
    now,              \* datetime.now()
    response,         \* what the last call of a method or route returned
    threads,          \* encoder calls running in request threads
    crc_run,          \* _calculate_crc16 on its way through the bytes
    calls,            \* verify_payment and cancel_payment calls in threads
    cache,            \* MemoryCache.cache: the entries, oldest use first
    max_size,         \* MemoryCache.max_size
    cache_returned,   \* what the last MemoryCache method returned
    loyalty_members,  \* table loyalty_members: id -> row
    points_transactions, \* table points_transactions: the rows in order
    requests          \* /loyalty/earn and /loyalty/redeem requests in threads

\* The state of the manager beyond its configuration, and of its callers.
manager_vars == <<pending_payments, now, response, threads>>

\* The state of the checksum loop, of the callers racing on a payment, of
\* the cache and of the loyalty tables.
crc_vars == <<crc_run>>
race_vars == <<calls>>
cache_vars == <<cache, max_size, cache_returned>>
loyalty_vars == <<loyalty_members, points_transactions, requests>>
library_vars == <<crc_vars, race_vars, cache_vars, loyalty_vars>>

vars == <<promptpay_id, merchant_name, enc_amount, enc_ref1, enc_ref2,
          payload, formatted_id, returned, pending_payments, now, response,
          threads, crc_run, calls, cache, max_size, cache_returned,
          loyalty_members, points_transactions, requests>>

-----------------------------------------------------------------------------
(* Characters and their code points (ord).                                 *)

DigitChars == <<"0", "1", "2", "3", "4", "5", "6", "7", "8", "9">>

UpperChars == <<"A", "B", "C", "D", "E", "F", "G", "H", "I", "J", "K", "L", "M",
                "N", "O", "P", "Q", "R", "S", "T", "U", "V", "W", "X", "Y", "Z">>

\* Characters outside ASCII, named by their code point:
\*   U+00E9 (e acute, 2 bytes of UTF-8), U+0E01 (Thai ko kai, 3 bytes),
\*   U+0E51 (Thai digit one, 3 bytes; str.isdigit() is True for it),
\*   U+1F600 (an emoji, 4 bytes), U+DC80 (a lone surrogate: not encodable).
OtherChars == {" ", "-", ".", "U+00E9", "U+0E01", "U+0E51", "U+1F600", "U+DC80"}

Range(s) == {s[i] : i \in 1..Len(s)}

Alphabet == Range(DigitChars) \cup Range(UpperChars) \cup OtherChars

IndexOf(s, c) == CHOOSE i \in 1..Len(s) : s[i] = c

OrdTable ==
    [c \in Alphabet |->
        IF c \in Range(DigitChars) THEN 47 + IndexOf(DigitChars, c)
        ELSE IF c \in Range(UpperChars) THEN 64 + IndexOf(UpperChars, c)
        ELSE CASE c = " "       -> 32
               [] c = "-"       -> 45
               [] c = "."       -> 46
               [] c = "U+00E9"  -> 233
               [] c = "U+0E01"  -> 3585
               [] c = "U+0E51"  -> 3665
               [] c = "U+1F600" -> 128512
               [] c = "U+DC80"  -> 56448]

Ord(c) == OrdTable[c]

Chr(n) == CHOOSE c \in Alphabet : OrdTable[c] = n

IsChr(n) == \E c \in Alphabet : OrdTable[c] = n

\* str.isdigit: the ASCII digits and every other Unicode digit character.
IsDigit(c) == c \in Range(DigitChars) \/ c = "U+0E51"

\* "".join(ss[lo..hi]), split in halves.
RECURSIVE FlattenRange(_, _, _)
FlattenRange(ss, lo, hi) ==
    IF lo > hi THEN <<>>
    ELSE IF lo = hi THEN ss[lo]
    ELSE FlattenRange(ss, lo, (lo + hi) \div 2)
         \o FlattenRange(ss, ((lo + hi) \div 2) + 1, hi)

Flatten(ss) == FlattenRange(ss, 1, Len(ss))

\* c * n
Rep(c, n) == [i \in 1..n |-> c]

Min(a, b) == IF a <= b THEN a ELSE b

-----------------------------------------------------------------------------
(* str.encode('utf-8'), bytes[:25], bytes.decode('utf-8').                  *)

\* The UTF-8 bytes of one code point; a surrogate (U+D800..U+DFFF) has none.
Utf8OfCodePoint(n) ==
    IF n < 128 THEN <<n>>
    ELSE IF n < 2048 THEN <<192 + (n \div 64), 128 + (n % 64)>>
    ELSE IF n < 65536 THEN
        <<224 + (n \div 4096), 128 + ((n \div 64) % 64), 128 + (n % 64)>>
    ELSE <<240 + (n \div 262144), 128 + ((n \div 4096) % 64),
           128 + ((n \div 64) % 64), 128 + (n % 64)>>

IsSurrogate(n) == n >= 55296 /\ n <= 57343

Utf8Table == [c \in Alphabet |-> Utf8OfCodePoint(OrdTable[c])]

\* s.encode('utf-8'): raises UnicodeEncodeError on a surrogate.
Encodable(s) == \A i \in 1..Len(s) : ~IsSurrogate(Ord(s[i]))

EncodeUtf8(s) == Flatten([i \in 1..Len(s) |-> Utf8Table[s[i]]])

\* b[:n]
Prefix(b, n) == SubSeq(b, 1, Min(n, Len(b)))

\* The number of bytes a lead byte announces (0: not a lead byte).
SeqLenOfLead(b) ==
    IF b < 128 THEN 1
    ELSE IF b >= 194 /\ b <= 223 THEN 2
    ELSE IF b >= 224 /\ b <= 239 THEN 3
    ELSE IF b >= 240 /\ b <= 244 THEN 4
    ELSE 0

IsContinuation(b) == b >= 128 /\ b <= 191

CodePointOf(bs) ==
    CASE Len(bs) = 1 -> bs[1]
      [] Len(bs) = 2 -> (bs[1] - 192) * 64 + (bs[2] - 128)
      [] Len(bs) = 3 -> (bs[1] - 224) * 4096 + (bs[2] - 128) * 64 + (bs[3] - 128)
      [] Len(bs) = 4 -> (bs[1] - 240) * 262144 + (bs[2] - 128) * 4096
                        + (bs[3] - 128) * 64 + (bs[4] - 128)

\* b.decode('utf-8') (strict): [ok |-> FALSE] stands for UnicodeDecodeError,
\* raised on a byte that starts no sequence and on a sequence cut short.
RECURSIVE DecodeUtf8(_)
DecodeUtf8(b) ==
    IF b = <<>> THEN [ok |-> TRUE, val |-> <<>>]
    ELSE LET n == SeqLenOfLead(b[1]) IN
         IF n = 0 \/ n > Len(b) THEN [ok |-> FALSE, val |-> <<>>]
         ELSE IF \E i \in 2..n : ~IsContinuation(b[i])
              THEN [ok |-> FALSE, val |-> <<>>]
         ELSE LET cp   == CodePointOf(SubSeq(b, 1, n))
                  rest == DecodeUtf8(SubSeq(b, n + 1, Len(b)))
              IN IF ~IsChr(cp) \/ IsSurrogate(cp) \/ ~rest.ok
                 THEN [ok |-> FALSE, val |-> <<>>]
                 ELSE [ok |-> TRUE, val |-> <<Chr(cp)>> \o rest.val]

-----------------------------------------------------------------------------
(* Number formatting: f"{n:02d}", f"{amount:.2f}", f"{crc:04X}".            *)

RECURSIVE DecStr(_)
DecStr(n) ==
    IF n < 10 THEN <<DigitChars[n + 1]>>
    ELSE DecStr(n \div 10) \o <<DigitChars[(n % 10) + 1]>>

\* f"{n:02d}" for n >= 0: at least two digits, zero-padded.
Pad2(n) == IF n < 10 THEN <<"0">> \o DecStr(n) ELSE DecStr(n)

HexChars == DigitChars \o SubSeq(UpperChars, 1, 6)

RECURSIVE HexStr(_)
HexStr(n) ==
    IF n < 16 THEN <<HexChars[n + 1]>>
    ELSE HexStr(n \div 16) \o <<HexChars[(n % 16) + 1]>>

\* f"{n:04X}": upper-case hexadecimal, zero-padded to at least four digits.
Hex4(n) == LET h == HexStr(n) IN Rep("0", 4 - Len(h)) \o h

\* A formatting that drops a trailing zero of the fraction, as str(amount)
\* does: 125.5 for 12550.  Not the code's; the amount properties tell it
\* from f"{amount:.2f}".
AmountStrShortest(a) ==
    DecStr(a \div 100) \o <<".">> \o
    (IF a % 10 = 0 THEN DecStr((a % 100) \div 10) ELSE Pad2(a % 100))

\* An amount is a number of hundredths (satang): 1070 is 10.70.
\* f"{amount:.2f}" for amount > 0.
AmountStr(a) == DecStr(a \div 100) \o <<".">> \o Pad2(a % 100)

-----------------------------------------------------------------------------
(* _calculate_crc16                                                        *)

\* Python's a ^ b on non-negative integers, bit by bit.
RECURSIVE XorBits(_, _)
XorBits(a, b) ==
    IF a = 0 THEN b
    ELSE IF b = 0 THEN a
    ELSE 2 * XorBits(a \div 2, b \div 2) + ((a + b) % 2)

\* The same on hexadecimal digits, tabulated.
XorNibble == [x \in 0..15 |-> [y \in 0..15 |-> XorBits(x, y)]]

\* a ^ b for a, b < 2^20, one hexadecimal digit at a time.
BitXor(a, b) ==
    XorNibble[a % 16][b % 16]
    + 16 * XorNibble[(a \div 16) % 16][(b \div 16) % 16]
    + 256 * XorNibble[(a \div 256) % 16][(b \div 256) % 16]
    + 4096 * XorNibble[(a \div 4096) % 16][(b \div 4096) % 16]
    + 65536 * XorNibble[(a \div 65536) % 16][(b \div 65536) % 16]

\* a & 0x8000 and a & 0xFFFF: a one-bit mask tests the bit, a mask of the
\* low 16 bits keeps them.
AndBit15(a) == ((a \div 32768) % 2) * 32768

AndLow16(a) == a % 65536

polynomial == 4129      \* 0x1021

\* One pass of the inner loop, for _ in range(8), on a 16-bit crc:
\*   if crc & 0x8000: crc = (crc << 1) ^ polynomial
\*   else:            crc <<= 1
\*   crc &= 0xFFFF
\* A bit step that shifts right, with the polynomial reflected (0x8408).
\* Not the code's; the reference checksum tells it from the code.
Crc16BitReflected(crc) ==
    IF crc % 2 = 1 THEN BitXor(crc \div 2, 33800) ELSE crc \div 2

Crc16Bit(crc) ==
    AndLow16(IF AndBit15(crc) # 0 THEN BitXor(crc * 2, polynomial)
             ELSE crc * 2)

RECURSIVE Crc16Bits(_, _)
Crc16Bits(crc, n) ==
    IF n = 0 \/ crc < 0 THEN crc ELSE Crc16Bits(Crc16Bit(crc), n - 1)

\* One pass of the outer loop: crc ^= (byte << 8), then the eight bit steps.
Crc16Byte(crc, byte) == Crc16Bits(BitXor(crc, byte * 256), 8)

\* for byte in data.encode('utf-8'): the loop over bytes lo..hi of bs, started
\* with crc.  The range is split in halves, the first half's result starting
\* the second.  (crc < 0 never holds: the test makes TLC compute crc on entry,
\* which keeps its evaluation stack shallow.)
RECURSIVE Crc16Fold(_, _, _, _)
Crc16Fold(crc, bs, lo, hi) ==
    IF lo > hi \/ crc < 0 THEN crc
    ELSE IF lo = hi THEN Crc16Byte(crc, bs[lo])
    ELSE Crc16Fold(Crc16Fold(crc, bs, lo, (lo + hi) \div 2),
                   bs, ((lo + hi) \div 2) + 1, hi)

\* _calculate_crc16(data) on the bytes of data.encode('utf-8').
Crc16OfBytes(b) == Crc16Fold(65535, b, 1, Len(b))

CalculateCrc16(data) == Crc16OfBytes(EncodeUtf8(data))

-----------------------------------------------------------------------------
(* _format_promptpay_id                                                    *)

\* ''.join(filter(str.isdigit, promptpay_id))
CleanId(id) == SelectSeq(id, IsDigit)

\* A normalisation that drops the first two digits of a phone number.  Not
\* the code's; the payload of the configured identifier tells it from
\* clean_id[1:].
FormatPromptpayIdDropTwo(id) ==
    LET clean_id == CleanId(id) IN
    IF Len(clean_id) = 10 THEN <<"0", "0", "6", "6">> \o Tail(Tail(clean_id))
    ELSE IF Len(clean_id) = 13 THEN clean_id
    ELSE clean_id \o Rep("0", 13 - Len(clean_id))

\* A normalisation that keeps the trunk 0 of a phone number.  Not the
\* code's; the normalisation properties tell it from clean_id[1:].
FormatPromptpayIdKeepTrunk(id) ==
    LET clean_id == CleanId(id) IN
    IF Len(clean_id) = 10 THEN <<"0", "0", "6", "6">> \o clean_id
    ELSE IF Len(clean_id) = 13 THEN clean_id
    ELSE clean_id \o Rep("0", 13 - Len(clean_id))

FormatPromptpayId(id) ==
    LET clean_id == CleanId(id) IN
    IF Len(clean_id) = 10 THEN <<"0", "0", "6", "6">> \o Tail(clean_id)
    ELSE IF Len(clean_id) = 13 THEN clean_id
    ELSE clean_id \o Rep("0", 13 - Len(clean_id))     \* clean_id.ljust(13, '0')

-----------------------------------------------------------------------------
(* _create_promptpay_payload                                               *)

\* An absent reference (ref1=None); `if ref1:` is false for it and for "".
None == <<"None">>

Truthy(ref) == ref # None /\ ref # <<>>

Ok(v) == [ok |-> TRUE, val |-> v]

Raise == [ok |-> FALSE, val |-> <<>>]

PayloadFormatIndicator == <<"0", "0", "0", "2", "0", "1">>

PointOfInitiation == <<"0", "1", "0", "2", "1", "2">>

\* "0016A000000677010111"
MerchantInfoPrefix ==
    <<"0", "0", "1", "6", "A", "0", "0", "0", "0", "0", "0", "6", "7", "7",
      "0", "1", "0", "1", "1", "1">>

MerchantCategoryCode == <<"5", "2", "0", "4", "4", "8", "1", "4">>

TransactionCurrency == <<"5", "3", "0", "3", "7", "6", "4">>

CountryCode == <<"5", "8", "0", "2", "T", "H">>

CrcHeader == <<"6", "3", "0", "4">>

\* merchant_info = f"0016A000000677010111{self._format_promptpay_id(...)}"
MerchantInfo(id) == MerchantInfoPrefix \o FormatPromptpayId(id)

\* f"29{len(merchant_info):02d}{merchant_info}"
MerchantAccountField(id) ==
    <<"2", "9">> \o Pad2(Len(MerchantInfo(id))) \o MerchantInfo(id)

\* if amount > 0: f"54{len(amount_str):02d}{amount_str}"
AmountField(amount) ==
    IF amount > 0
    THEN <<"5", "4">> \o Pad2(Len(AmountStr(amount))) \o AmountStr(amount)
    ELSE <<>>

\* The 25 of [:25].
MaxFieldBytes == 25

\* x_encoded = x.encode('utf-8')[:25]
\* f"{tag}{len(x_encoded):02d}{x_encoded.decode('utf-8')}"
\* Raises when x cannot be encoded or the 25 bytes cannot be decoded.
TruncatedField(tag, x) ==
    IF ~Encodable(x) THEN Raise
    ELSE LET x_encoded == Prefix(EncodeUtf8(x), MaxFieldBytes)
             decoded   == DecodeUtf8(x_encoded)
         IN IF ~decoded.ok THEN Raise
            ELSE Ok(tag \o Pad2(Len(x_encoded)) \o decoded.val)

MerchantNameField(name) == TruncatedField(<<"5", "9">>, name)

Ref1Field(ref1) ==
    IF Truthy(ref1) THEN TruncatedField(<<"0", "1">>, ref1) ELSE Ok(<<>>)

Ref2Field(ref2) ==
    IF Truthy(ref2) THEN TruncatedField(<<"0", "2">>, ref2) ELSE Ok(<<>>)

\* An additional-data field that announces its length in hexadecimal.  Not
\* the code's; the payload of a reference of 8 characters tells it from
\* f"{len(additional_data_str):02d}".
AdditionalDataFieldHexLength(sub1, sub2) ==
    LET additional_data_str == sub1 \o sub2 IN
    IF additional_data_str = <<>> THEN <<>>
    ELSE <<"6", "2">>
         \o (IF Len(additional_data_str) < 16 THEN <<"0">> ELSE <<>>)
         \o HexStr(Len(additional_data_str)) \o additional_data_str

\* additional_data_str = "".join(additional_data)
\* if additional_data: f"62{len(additional_data_str):02d}{additional_data_str}"
AdditionalDataField(sub1, sub2) ==
    LET additional_data_str == sub1 \o sub2 IN
    IF additional_data_str = <<>> THEN <<>>
    ELSE <<"6", "2">> \o Pad2(Len(additional_data_str)) \o additional_data_str

\* payload_without_crc + f"{crc:04X}"
CompletePayload(payload_without_crc) ==
    payload_without_crc \o Hex4(CalculateCrc16(payload_without_crc))

\* The whole method: the fields in the order they are appended, the "6304"
\* header, the checksum; "" when anything raised (except Exception: return "").
CreatePromptpayPayload(id, name, amount, ref1, ref2) ==
    LET name_field == MerchantNameField(name)
        sub1       == Ref1Field(ref1)
        sub2       == Ref2Field(ref2)
    IN IF ~name_field.ok \/ ~sub1.ok \/ ~sub2.ok THEN <<>>
       ELSE CompletePayload(
                PayloadFormatIndicator \o PointOfInitiation
                \o MerchantAccountField(id)
                \o MerchantCategoryCode \o TransactionCurrency
                \o AmountField(amount)
                \o CountryCode
                \o name_field.val
                \o AdditionalDataField(sub1.val, sub2.val)
                \o CrcHeader)

-----------------------------------------------------------------------------
(* Inputs.                                                                 *)

\* Identifiers of 0..MaxIdDigits digits are tried, and one of LongIdDigits.
MaxIdDigits == 14

LongIdDigits == 80

\* Names and references of up to MaxTextChars characters are tried.
MaxTextChars == 26

\* self.promptpay_id = "0123456789"
ConfiguredId == <<"0", "1", "2", "3", "4", "5", "6", "7", "8", "9">>

\* self.merchant_name = "GOOD SALE POS"
ConfiguredName ==
    <<"G", "O", "O", "D", " ", "S", "A", "L", "E", " ", "P", "O", "S">>

\* "1234567890123...": n digits.
DigitCycle(n) == [i \in 1..n |-> DigitChars[(i % 10) + 1]]

\* The configured identifier; a mobile number, plain and with dashes; a
\* national identifier with dashes; letters among the digits; Thai digits;
\* and runs of digits of every length tried.
IdSamples ==
    {ConfiguredId,
     <<"0", "8", "1", "2", "3", "4", "5", "6", "7", "8">>,
     <<"0", "8", "1", "-", "2", "3", "4", "-", "5", "6", "7", "8">>,
     <<"1", "-", "2", "3", "4", "5", "-", "6", "7", "8", "9", "0", "-", "1",
       "2", "-", "3">>,
     <<"I", "D", " ", "1", "2", "3", "4", "5">>,
     Rep("U+0E51", 10),
     DigitCycle(LongIdDigits)}
    \cup {DigitCycle(n) : n \in 0..MaxIdDigits}

TextChars == {"A", "U+00E9", "U+0E01", "U+1F600"}

Width(c) == Len(Utf8Table[c])

\* Of each character: as many as fit in 25 bytes, one more, and MaxTextChars;
\* "A" and "AA" before 24 bytes of Thai; "A" before 27; a surrogate.
TextSamples ==
    UNION {{Rep(c, MaxFieldBytes \div Width(c)),
            Rep(c, (MaxFieldBytes \div Width(c)) + 1),
            Rep(c, MaxTextChars)} : c \in TextChars}
    \cup {Rep("A", k) \o Rep("U+0E01", 8) : k \in 1..2}
    \cup {<<"A">> \o Rep("U+0E01", 9)}
    \cup {<<"U+DC80">>}

NameSamples == {ConfiguredName} \cup TextSamples

Order123 == <<"O", "R", "D", "E", "R", "1", "2", "3">>

Test001 == <<"T", "E", "S", "T", "-", "0", "0", "1">>

RefSamples == {None, <<>>, Order123, Test001} \cup TextSamples

\* Either the identifier or the name differs from the configured one.
ConfigSamples ==
    (IdSamples \X {ConfiguredName}) \cup ({ConfiguredId} \X NameSamples)

\* At most one reference is unusual.
RefPairSamples ==
    (RefSamples \X {None}) \cup ({None} \X RefSamples)
    \cup {<<Order123, Test001>>, <<Rep("U+0E01", 9), Test001>>,
          <<Test001, Rep("U+0E01", 9)>>}

\* Hundredths: -1.00, 0, 0.01, 10.70, 125.50, 99999.99.
AmountSamples == {-100, 0, 1, 1070, 12550, 9999999}

\* The calls tried.  Under the configured identifier and name: the usual
\* amounts with every pair of references, every amount with the usual
\* references.  Under the other configurations: the usual ones.
CallSamples(id, name) ==
    IF id = ConfiguredId /\ name = ConfiguredName
    THEN ({0, 1070, 12550} \X RefPairSamples)
         \cup (AmountSamples \X {<<None, None>>, <<Test001, None>>})
    ELSE {0, 1070} \X {<<None, None>>, <<Test001, None>>}

-----------------------------------------------------------------------------
(* The pending payments, the clock and the results of the manager.         *)

\* At most MaxPayments payments are generated.
MaxPayments == 2

\* The clock advances by TickMinutes up to MaxNow.
TickMinutes == 15

MaxNow == 30

\* Encoder calls running at once in request threads.
MaxThreads == 2

\* timedelta(minutes=15)
ExpiryMinutes == 15

\* str(uuid.uuid4()): values that differ from each other, in the order
\* they are drawn.
Uuids == <<"uuid-1", "uuid-2", "uuid-3", "uuid-4">>

PaymentIds == {Uuids[i] : i \in 1..MaxPayments}

Uuid4(payments) == Uuids[Cardinality(DOMAIN payments) + 1]

\* A key that payment_data does not have (yet): 'verified_at',
\* 'cancelled_at'; dict.get gives None for it.
NoTime == -1

\* payment_data as generate_promptpay_qr builds it.
PaymentData(payment_id, amount, ref1, ref2, qr_payload, t) ==
    [payment_id   |-> payment_id,
     amount       |-> amount,
     ref1         |-> ref1,
     ref2         |-> ref2,
     payload      |-> qr_payload,
     status       |-> "pending",
     created_at   |-> t,
     expires_at   |-> t + ExpiryMinutes,
     verified_at  |-> NoTime,
     slip_image   |-> "None",
     cancelled_at |-> NoTime]

\* self.pending_payments = {}
NoPayments == [p \in {} |-> PaymentData("", 0, None, None, <<>>, 0)]

\* self.pending_payments[payment_id] = payment_data
Store(payments, payment_id, payment_data) ==
    [p \in DOMAIN payments \cup {payment_id} |->
         IF p = payment_id THEN payment_data ELSE payments[p]]

\* The dict a manager method returns: 'success', and of the other keys
\* those that the method sets ('error', 'payment_id', 'payload', 'status',
\* and the count that cleanup_expired_payments returns).  A route adds the
\* request and the HTTP status of its answer.
Result(op, success, payment_id, error, qr_payload, status, count) ==
    [op          |-> op,
     success     |-> success,
     payment_id  |-> payment_id,
     error       |-> error,
     payload     |-> qr_payload,
     status      |-> status,
     count       |-> count,
     request     |-> <<>>,
     http_status |-> 0]

\* No method has been called.
NoResult == Result("", FALSE, "", "", <<>>, "", 0)

\* What POST /generate-qr answers a request: jsonify({'success': ...,
\* 'data': result}), status; 'data' only with success.
HttpResponse(request, http_status, result) ==
    [(IF result.success THEN result ELSE NoResult)
         EXCEPT !.op = "POST /generate-qr",
                !.success = result.success,
                !.request = request,
                !.http_status = http_status]

\* The local variables of an encoder call in a thread: where it is, and
\* what it has read of self and computed.
ThreadAt(pc, id, name, result) ==
    [pc |-> pc, promptpay_id |-> id, merchant_name |-> name, payload |-> result]

Threads == 1..MaxThreads

NoThreads == [t \in Threads |-> ThreadAt("idle", <<>>, <<>>, <<>>)]

Thai(n) == Rep("U+0E01", n)

\* store_name[:10]
First10(store_name) == SubSeq(store_name, 1, Min(10, Len(store_name)))

\* The calls of generate_promptpay_qr and of the encoder tried on the
\* manager, as the route makes them: 10.70 for ORDER123 with ref2
\* "GOOD SALE ", and with a ref2 of 10 Thai characters, whose 25th byte is
\* inside a character.
ManagerCalls ==
    {<<1070, Order123, First10(ConfiguredName)>>, <<1070, Order123, Thai(10)>>}

\* request.get_json()['amount']: a JSON value, a number (in hundredths), a
\* string, null or a boolean.
JsonNumber(n) == [kind |-> "number", val |-> n]

JsonString == [kind |-> "string", val |-> 0]

JsonNull == [kind |-> "null", val |-> 0]

\* true; True == 1 in Python.
JsonTrue == [kind |-> "boolean", val |-> 100]

\* The /generate-qr requests tried: amount, order_id, store_name.
RouteRequests ==
    {<<JsonNumber(1070), Order123, ConfiguredName>>,
     <<JsonNumber(1070), Order123, Thai(12)>>,
     <<JsonNumber(0), Order123, ConfiguredName>>,
     <<JsonNumber(-100), Order123, ConfiguredName>>,
     <<JsonString, Order123, ConfiguredName>>,
     <<JsonNull, Order123, ConfiguredName>>,
     <<JsonTrue, Order123, ConfiguredName>>}

\* amount <= 0 in Python: True, False, or TypeError for a str or None.
LeZero(amount) ==
    IF amount.kind \in {"number", "boolean"}
    THEN Ok(amount.val <= 0)
    ELSE Raise

\* The calls of generate_promptpay_qr that the requests tried lead to.
RouteCalls ==
    {<<r[1].val, r[2], First10(r[3])>> :
         r \in {q \in RouteRequests : LeZero(q[1]).ok /\ ~LeZero(q[1]).val}}

\* What _create_promptpay_payload returns for the calls tried under the
\* configuration of __init__, computed once.
ConfiguredPayloads ==
    [c \in ManagerCalls \cup RouteCalls |->
         CreatePromptpayPayload(ConfiguredId, ConfiguredName, c[1], c[2], c[3])]

\* self._create_promptpay_payload(amount, ref1, ref2) with self.promptpay_id
\* = id and self.merchant_name = name.
PayloadOf(id, name, amount, ref1, ref2) ==
    IF /\ id = ConfiguredId
       /\ name = ConfiguredName
       /\ <<amount, ref1, ref2>> \in DOMAIN ConfiguredPayloads
    THEN ConfiguredPayloads[<<amount, ref1, ref2>>]
    ELSE CreatePromptpayPayload(id, name, amount, ref1, ref2)

-----------------------------------------------------------------------------
(* The components beside the manager, as they are before anything runs:    *)
(* the checksum loop, the callers of verify and cancel, a MemoryCache and  *)
(* the loyalty tables.                                                     *)

\* crc = 0xFFFF
CrcInitial == 65535

\* _calculate_crc16 at its start on the bytes data: the byte and bit it has
\* come to, and crc.
CrcRunOn(data) ==
    [data |-> data, byte |-> 0, bit |-> 8, crc |-> CrcInitial, pc |-> "loop"]

NoCrcRun == [CrcRunOn(<<>>) EXCEPT !.pc = "idle"]

CrcIdle == crc_run = NoCrcRun

\* A thread that may call verify_payment or cancel_payment: where it is in
\* the method, its arguments and what the method returned to it.
NoCall ==
    [op |-> "", pc |-> "idle", payment_id |-> "", slip_image_data |-> "None",
     result |-> NoResult]

NoCallsYet == calls = [t \in Threads |-> NoCall]

\* MemoryCache(max_size=1000, default_ttl=300)
DefaultMaxSize == 1000
DefaultTtl == 300

NoCacheResult == [op |-> "", key |-> "", value |-> "None", ttl |-> 0]

\* MemoryCache.__init__ with the given max_size
CacheConstructed(size) ==
    /\ cache = <<>>
    /\ max_size = size
    /\ cache_returned = NoCacheResult

CacheAsConstructed == CacheConstructed(DefaultMaxSize)

\* calculate_tier(points_balance)
CalculateTier(points_balance) ==
    IF points_balance >= 10000 THEN "Platinum"
    ELSE IF points_balance >= 5000 THEN "Gold"
    ELSE IF points_balance >= 1000 THEN "Silver"
    ELSE "Bronze"

\* A row of loyalty_members
Member(member_id, points_balance, tier) ==
    [member_id |-> member_id, points_balance |-> points_balance, tier |-> tier]

\* The sample member the schema update inserts, and the table with it, by
\* row id.
DemoMember == Member("DEMO0001", 500, "Silver")
InstalledMembers == [id \in {1} |-> DemoMember]

\* A row read by a request (sqlite3.Row with its id), or no row
MemberRow(id, row) == [id |-> id, points_balance |-> row.points_balance,
                       tier |-> row.tier]
NoMemberRow == [id |-> 0, points_balance |-> 0, tier |-> ""]

\* A request thread of the loyalty routes: where it is, the JSON it got,
\* the member row it read, and the status and new_balance it answered.
NoRequest ==
    [pc |-> "idle", route |-> "", member_id |-> "", points |-> 0,
     member |-> NoMemberRow, http_status |-> 0, new_balance |-> 0]

LoyaltyAsInstalled ==
    /\ loyalty_members = InstalledMembers
    /\ points_transactions = <<>>
    /\ requests = [t \in Threads |-> NoRequest]

-----------------------------------------------------------------------------
(* The state machine: a manager as configured, the arguments of a call of  *)
(* the encoder, and the two methods applied to them.                       *)

Init ==
    /\ \E cfg \in ConfigSamples :
           /\ promptpay_id = cfg[1]
           /\ merchant_name = cfg[2]
           /\ \E c \in CallSamples(cfg[1], cfg[2]) :
                  /\ enc_amount = c[1]
                  /\ enc_ref1 = c[2][1]
                  /\ enc_ref2 = c[2][2]
    /\ payload = <<>>
    /\ formatted_id = <<>>
    /\ returned = {}
    /\ pending_payments = NoPayments
    /\ now = 0
    /\ response = NoResult
    /\ threads = NoThreads
    /\ CrcIdle /\ NoCallsYet /\ CacheAsConstructed /\ LoyaltyAsInstalled

\* A call of self._format_promptpay_id(self.promptpay_id).
FormatPromptpayIdCall ==
    /\ formatted_id' = FormatPromptpayId(promptpay_id)
    /\ returned' = returned \cup {"_format_promptpay_id"}
    /\ UNCHANGED <<promptpay_id, merchant_name, enc_amount, enc_ref1, enc_ref2,
                   payload>>
    /\ UNCHANGED <<manager_vars, library_vars>>

\* An encoder that keeps the name it emitted in self.merchant_name.  Not the
\* code's; the frame property of the encoder tells it from the code.
CreatePromptpayPayloadCallKeepingName ==
    /\ payload' = PayloadOf(promptpay_id, merchant_name,
                            enc_amount, enc_ref1, enc_ref2)
    /\ returned' = returned \cup {"_create_promptpay_payload"}
    /\ merchant_name' = SubSeq(merchant_name, 1, Len(merchant_name) - 1)
    /\ UNCHANGED <<promptpay_id, enc_amount, enc_ref1, enc_ref2, formatted_id>>
    /\ UNCHANGED <<manager_vars, library_vars>>

\* A call of self._create_promptpay_payload(amount, ref1, ref2).
CreatePromptpayPayloadCall ==
    /\ payload' = PayloadOf(promptpay_id, merchant_name,
                            enc_amount, enc_ref1, enc_ref2)
    /\ returned' = returned \cup {"_create_promptpay_payload"}
    /\ UNCHANGED <<promptpay_id, merchant_name, enc_amount, enc_ref1, enc_ref2,
                   formatted_id>>
    /\ UNCHANGED <<manager_vars, library_vars>>

Next == FormatPromptpayIdCall \/ CreatePromptpayPayloadCall

Spec == Init /\ [][Next]_vars

-----------------------------------------------------------------------------
(* The methods of the manager and the /generate-qr route.                  *)

\* What the methods of the manager and the route never assign.
codec_vars == <<promptpay_id, merchant_name, enc_amount, enc_ref1, enc_ref2,
                payload, formatted_id, returned>>

\* Time passes.
Tick ==
    /\ now < MaxNow
    /\ now' = now + TickMinutes
    /\ UNCHANGED <<library_vars, codec_vars, pending_payments, response, threads>>

\* generate_promptpay_qr(amount, ref1, ref2).  The payload is whatever the
\* encoder returned.  Either the QR image is built of it and the payment is
\* stored under a new uuid, or building the image raises (raised) and the
\* except clause answers.
GenerateResult(amount, ref1, ref2, raised) ==
    IF raised
    THEN Result("generate_promptpay_qr", FALSE, "", "str(e)", <<>>, "", 0)
    ELSE Result("generate_promptpay_qr", TRUE, Uuid4(pending_payments), "",
                PayloadOf(promptpay_id, merchant_name, amount, ref1, ref2),
                "", 0)

\* self.pending_payments after generate_promptpay_qr(amount, ref1, ref2).
PaymentsAfterGenerate(amount, ref1, ref2, raised) ==
    IF raised
    THEN pending_payments
    ELSE Store(pending_payments, Uuid4(pending_payments),
               PaymentData(Uuid4(pending_payments), amount, ref1, ref2,
                           PayloadOf(promptpay_id, merchant_name, amount,
                                     ref1, ref2),
                           now))

\* A generate_promptpay_qr that makes the ref1 of the payment the merchant
\* identifier of the manager.  Not the code's; the determinism of the
\* encoder tells it from the code.
GeneratePromptpayQrCallSettingId ==
    /\ Cardinality(DOMAIN pending_payments) < MaxPayments
    /\ \E c \in ManagerCalls, raised \in BOOLEAN :
           /\ pending_payments' =
                  PaymentsAfterGenerate(c[1], c[2], c[3], raised)
           /\ response' = GenerateResult(c[1], c[2], c[3], raised)
           /\ promptpay_id' = c[2]
    /\ UNCHANGED <<merchant_name, enc_amount, enc_ref1, enc_ref2, payload,
                   formatted_id, returned, now, threads, library_vars>>

\* A call of generate_promptpay_qr from anywhere.
GeneratePromptpayQrCall ==
    /\ Cardinality(DOMAIN pending_payments) < MaxPayments
    /\ \E c \in ManagerCalls, raised \in BOOLEAN :
           /\ pending_payments' =
                  PaymentsAfterGenerate(c[1], c[2], c[3], raised)
           /\ response' = GenerateResult(c[1], c[2], c[3], raised)
    /\ UNCHANGED <<library_vars, codec_vars, now, threads>>

\* POST /generate-qr (routes/payment.py, generate_qr_payment): 400 when
\* amount <= 0, 500 when anything raises or the manager reports failure,
\* else generate_promptpay_qr(amount, order_id, store_name[:10]) and 200.
GenerateQrPayment ==
    /\ Cardinality(DOMAIN pending_payments) < MaxPayments
    /\ \E request \in RouteRequests :
           LET amount == request[1]
               ref1   == request[2]
               ref2   == First10(request[3])
               le     == LeZero(amount)
           IN IF ~le.ok
              THEN /\ response' = HttpResponse(request, 500, NoResult)
                   /\ UNCHANGED pending_payments
              ELSE IF le.val
              THEN /\ response' = HttpResponse(request, 400, NoResult)
                   /\ UNCHANGED pending_payments
              ELSE \E raised \in BOOLEAN :
                       /\ pending_payments' =
                              PaymentsAfterGenerate(amount.val, ref1, ref2, raised)
                       /\ response' =
                              HttpResponse(request,
                                           IF raised THEN 500 ELSE 200,
                                           GenerateResult(amount.val, ref1,
                                                          ref2, raised))
    /\ UNCHANGED <<library_vars, codec_vars, now, threads>>

\* A verify_payment that does not look at expires_at.  Not the code's; the
\* 15 minutes of a payment tell it from the code.
VerifyPaymentAnyTime(payment_id, slip_image_data) ==
    IF payment_id \notin DOMAIN pending_payments
    THEN /\ response' = Result("verify_payment", FALSE, "",
                               "Payment ID not found", <<>>, "", 0)
         /\ UNCHANGED pending_payments
    ELSE /\ pending_payments' =
                [pending_payments EXCEPT ![payment_id] =
                     [@ EXCEPT !.status = "completed",
                               !.verified_at = now,
                               !.slip_image = slip_image_data]]
         /\ response' = Result("verify_payment", TRUE, payment_id,
                               "", <<>>, "completed", 0)

\* A verify_payment that notes a failed verification in the payment.  Not
\* the code's; the map after a failure tells it from the code.
VerifyPaymentNotingFailure(payment_id, slip_image_data) ==
    IF payment_id \notin DOMAIN pending_payments
    THEN /\ response' = Result("verify_payment", FALSE, "",
                               "Payment ID not found", <<>>, "", 0)
         /\ UNCHANGED pending_payments
    ELSE IF now > pending_payments[payment_id].expires_at
    THEN /\ response' = Result("verify_payment", FALSE, "",
                               "Payment expired", <<>>, "", 0)
         /\ UNCHANGED pending_payments
    ELSE \E verified \in (IF slip_image_data # "None" THEN {TRUE} ELSE BOOLEAN) :
             IF verified
             THEN /\ pending_payments' =
                         [pending_payments EXCEPT ![payment_id] =
                              [@ EXCEPT !.status = "completed",
                                        !.verified_at = now,
                                        !.slip_image = slip_image_data]]
                  /\ response' = Result("verify_payment", TRUE, payment_id,
                                        "", <<>>, "completed", 0)
             ELSE /\ response' = Result("verify_payment", FALSE, "",
                                        "Payment verification failed", <<>>,
                                        "", 0)
                  /\ pending_payments' =
                         [pending_payments EXCEPT ![payment_id] =
                              [@ EXCEPT !.slip_image = "failed"]]

\* verify_payment(payment_id, slip_image_data).  Without a slip the
\* simulated verification succeeds or fails at random.
VerifyPayment(payment_id, slip_image_data) ==
    IF payment_id \notin DOMAIN pending_payments
    THEN /\ response' = Result("verify_payment", FALSE, "",
                               "Payment ID not found", <<>>, "", 0)
         /\ UNCHANGED pending_payments
    ELSE IF now > pending_payments[payment_id].expires_at
    THEN /\ response' = Result("verify_payment", FALSE, "",
                               "Payment expired", <<>>, "", 0)
         /\ UNCHANGED pending_payments
    ELSE \E verified \in (IF slip_image_data # "None" THEN {TRUE} ELSE BOOLEAN) :
             IF verified
             THEN /\ pending_payments' =
                         [pending_payments EXCEPT ![payment_id] =
                              [@ EXCEPT !.status = "completed",
                                        !.verified_at = now,
                                        !.slip_image = slip_image_data]]
                  /\ response' = Result("verify_payment", TRUE, payment_id,
                                        "", <<>>, "completed", 0)
             ELSE /\ response' = Result("verify_payment", FALSE, "",
                                        "Payment verification failed", <<>>,
                                        "", 0)
                  /\ UNCHANGED pending_payments

VerifyPaymentCall ==
    /\ \E payment_id \in PaymentIds, slip_image_data \in {"None", "slip"} :
           VerifyPayment(payment_id, slip_image_data)
    /\ UNCHANGED <<library_vars, codec_vars, now, threads>>

\* A cancel_payment that does not look at the status.  Not the code's; a
\* completed payment tells it from the code.
CancelPaymentAnyStatus(payment_id) ==
    IF payment_id \notin DOMAIN pending_payments
    THEN /\ response' = Result("cancel_payment", FALSE, "",
                               "Payment ID not found", <<>>, "", 0)
         /\ UNCHANGED pending_payments
    ELSE /\ pending_payments' =
                [pending_payments EXCEPT ![payment_id] =
                     [@ EXCEPT !.status = "cancelled", !.cancelled_at = now]]
         /\ response' = Result("cancel_payment", TRUE, payment_id, "", <<>>,
                               "cancelled", 0)

\* cancel_payment(payment_id)
CancelPayment(payment_id) ==
    IF payment_id \notin DOMAIN pending_payments
    THEN /\ response' = Result("cancel_payment", FALSE, "",
                               "Payment ID not found", <<>>, "", 0)
         /\ UNCHANGED pending_payments
    ELSE IF pending_payments[payment_id].status = "completed"
    THEN /\ response' = Result("cancel_payment", FALSE, "",
                               "Cannot cancel completed payment", <<>>, "", 0)
         /\ UNCHANGED pending_payments
    ELSE /\ pending_payments' =
                [pending_payments EXCEPT ![payment_id] =
                     [@ EXCEPT !.status = "cancelled", !.cancelled_at = now]]
         /\ response' = Result("cancel_payment", TRUE, payment_id, "", <<>>,
                               "cancelled", 0)

\* A cancel_payment that also renames the merchant.  Not the code's; the
\* results of encoder calls running beside it tell it from the code.
CancelPaymentCallRenaming ==
    /\ \E payment_id \in PaymentIds : CancelPayment(payment_id)
    /\ merchant_name' = <<"C", "L", "O", "S", "E", "D">>
    /\ UNCHANGED <<promptpay_id, enc_amount, enc_ref1, enc_ref2, payload,
                   formatted_id, returned, now, threads, library_vars>>

CancelPaymentCall ==
    /\ \E payment_id \in PaymentIds : CancelPayment(payment_id)
    /\ UNCHANGED <<library_vars, codec_vars, now, threads>>

\* get_payment_status(payment_id)
GetPaymentStatus(payment_id) ==
    /\ response' =
           IF payment_id \notin DOMAIN pending_payments
           THEN Result("get_payment_status", FALSE, "", "Payment ID not found",
                       <<>>, "", 0)
           ELSE Result("get_payment_status", TRUE, payment_id, "", <<>>,
                       pending_payments[payment_id].status, 0)
    /\ UNCHANGED pending_payments

GetPaymentStatusCall ==
    /\ \E payment_id \in PaymentIds : GetPaymentStatus(payment_id)
    /\ UNCHANGED <<library_vars, codec_vars, now, threads>>

\* The payments that cleanup_expired_payments collects.
ExpiredPayments ==
    {p \in DOMAIN pending_payments :
         /\ now > pending_payments[p].expires_at
         /\ pending_payments[p].status = "pending"}

\* A cleanup that renews the payments it finds expired.  Not the code's;
\* the stored expires_at tells it from the code.
CleanupExpiredPaymentsRenewing ==
    /\ pending_payments' =
           [p \in DOMAIN pending_payments |->
                IF p \in ExpiredPayments
                THEN [pending_payments[p] EXCEPT !.expires_at = now + ExpiryMinutes]
                ELSE pending_payments[p]]
    /\ response' = Result("cleanup_expired_payments", TRUE, "", "", <<>>, "",
                          Cardinality(ExpiredPayments))
    /\ UNCHANGED <<library_vars, codec_vars, now, threads>>

\* cleanup_expired_payments(): marks them 'expired' and returns their number.
CleanupExpiredPayments ==
    /\ pending_payments' =
           [p \in DOMAIN pending_payments |->
                IF p \in ExpiredPayments
                THEN [pending_payments[p] EXCEPT !.status = "expired"]
                ELSE pending_payments[p]]
    /\ response' = Result("cleanup_expired_payments", TRUE, "", "", <<>>, "",
                          Cardinality(ExpiredPayments))
    /\ UNCHANGED <<library_vars, codec_vars, now, threads>>

\* The manager as __init__ leaves it, and a call of the encoder to make.
InitManager ==
    /\ promptpay_id = ConfiguredId
    /\ merchant_name = ConfiguredName
    /\ \E c \in ManagerCalls :
           /\ enc_amount = c[1]
           /\ enc_ref1 = c[2]
           /\ enc_ref2 = c[3]
    /\ payload = <<>>
    /\ formatted_id = <<>>
    /\ returned = {}
    /\ pending_payments = NoPayments
    /\ now = 0
    /\ response = NoResult
    /\ threads = NoThreads
    /\ CrcIdle /\ NoCallsYet /\ CacheAsConstructed /\ LoyaltyAsInstalled

NextManager ==
    \/ Tick
    \/ GeneratePromptpayQrCall
    \/ GenerateQrPayment
    \/ VerifyPaymentCall
    \/ CancelPaymentCall
    \/ GetPaymentStatusCall
    \/ CleanupExpiredPayments
    \/ CreatePromptpayPayloadCall

SpecManager == InitManager /\ [][NextManager]_vars

-----------------------------------------------------------------------------
(* Encoder calls in request threads, beside the methods of the manager.    *)
(* A call reads self.promptpay_id when it builds merchant_info and         *)
(* self.merchant_name when it builds the name field; all else is local.    *)

\* The rest of the state is left alone by a step of a thread.
ThreadStep(t, next) ==
    /\ threads' = [threads EXCEPT ![t] = next]
    /\ UNCHANGED <<library_vars, codec_vars, pending_payments, now, response>>

\* merchant_info = f"0016A000000677010111{...(self.promptpay_id)}"
EncoderReadsId(t) ==
    /\ threads[t].pc = "idle"
    /\ ThreadStep(t, ThreadAt("merchant_info", promptpay_id, <<>>, <<>>))

\* merchant_name_encoded = self.merchant_name.encode('utf-8')[:25]
EncoderReadsName(t) ==
    /\ threads[t].pc = "merchant_info"
    /\ ThreadStep(t, ThreadAt("merchant_name", threads[t].promptpay_id,
                              merchant_name, <<>>))

\* return complete_payload, or return "" from the except clause.
EncoderReturns(t) ==
    /\ threads[t].pc = "merchant_name"
    /\ ThreadStep(t, ThreadAt("returned", threads[t].promptpay_id,
                              threads[t].merchant_name,
                              PayloadOf(threads[t].promptpay_id,
                                        threads[t].merchant_name,
                                        enc_amount, enc_ref1, enc_ref2)))

EncoderThread ==
    \E t \in Threads :
        EncoderReadsId(t) \/ EncoderReadsName(t) \/ EncoderReturns(t)

NextConcurrent ==
    \/ EncoderThread
    \/ Tick
    \/ GeneratePromptpayQrCall
    \/ VerifyPaymentCall
    \/ CancelPaymentCall
    \/ CleanupExpiredPayments

SpecConcurrent == InitManager /\ [][NextConcurrent]_vars

-----------------------------------------------------------------------------
(* The vocabulary of the properties: what a scanner reads in a payload.    *)

\* The encoder has returned: payload is its result.
Encoded == "_create_promptpay_payload" \in returned

\* _format_promptpay_id has returned: formatted_id is its result.
Formatted == "_format_promptpay_id" \in returned

IsUpperHex(c) == c \in Range(HexChars)

\* s[-n:] and s[:-n]
LastChars(s, n) == SubSeq(s, Len(s) - n + 1, Len(s))

ButLast(s, n) == SubSeq(s, 1, Len(s) - n)

EndsWith(s, t) == Len(s) >= Len(t) /\ LastChars(s, Len(t)) = t

StartsWith(s, t) == Len(s) >= Len(t) /\ SubSeq(s, 1, Len(t)) = t

\* t in s
Contains(s, t) ==
    \E i \in 0..(Len(s) - Len(t)) : SubSeq(s, i + 1, i + Len(t)) = t

IsDigitByte(b) == b >= 48 /\ b <= 57

\* A scanner's left-to-right reading of bytes as fields of a 2-byte tag, a
\* length of 2 decimal digits and that many bytes of value: the fields read
\* and whether the bytes were fields to the end.
RECURSIVE ParseTLV(_)
ParseTLV(b) ==
    IF b = <<>> THEN [ok |-> TRUE, fields |-> <<>>]
    ELSE IF Len(b) < 4 \/ ~IsDigitByte(b[3]) \/ ~IsDigitByte(b[4])
         THEN [ok |-> FALSE, fields |-> <<>>]
    ELSE IF Len(b) < 4 + 10 * (b[3] - 48) + (b[4] - 48)
         THEN [ok |-> FALSE, fields |-> <<>>]
    ELSE LET n    == 10 * (b[3] - 48) + (b[4] - 48)
             rest == ParseTLV(SubSeq(b, 5 + n, Len(b)))
         IN [ok     |-> rest.ok,
             fields |-> <<[tag |-> <<b[1], b[2]>>, value |-> SubSeq(b, 5, 4 + n)]>>
                        \o rest.fields]

\* The fields of the payload as a scanner reads them.
PayloadFields == ParseTLV(EncodeUtf8(payload))

\* The tag of two ASCII digits d1 d2, as bytes.
Tag(d1, d2) == <<Ord(d1), Ord(d2)>>

TagsOf(fields) == [i \in 1..Len(fields) |-> fields[i].tag]

HasField(fields, tag) == \E i \in 1..Len(fields) : fields[i].tag = tag

\* The value of the first field with that tag.
FieldValue(fields, tag) ==
    fields[CHOOSE i \in 1..Len(fields) :
               /\ fields[i].tag = tag
               /\ \A j \in 1..(i - 1) : fields[j].tag # tag].value

\* The longest prefix of whole characters of s that takes at most n bytes.
SafeTruncate(s, n) ==
    LET fits == {k \in 0..Len(s) : Len(EncodeUtf8(SubSeq(s, 1, k))) <= n}
    IN SubSeq(s, 1, CHOOSE k \in fits : \A j \in fits : j <= k)

\* A name or reference of more than 25 bytes of UTF-8.
Oversized(x) ==
    Truthy(x) /\ Encodable(x) /\ Len(EncodeUtf8(x)) > MaxFieldBytes

\* The manager is configured as __init__ leaves it.
AsConfigured == promptpay_id = ConfiguredId /\ merchant_name = ConfiguredName

\* The payload ends with "6304" and the CRC16 of everything before the CRC,
\* as 4 upper-case hexadecimal digits.
Checksummed(p) ==
    /\ Len(p) >= 8
    /\ \A i \in 1..4 : IsUpperHex(LastChars(p, 4)[i])
    /\ EndsWith(ButLast(p, 4), CrcHeader)
    /\ LastChars(p, 4) = Hex4(CalculateCrc16(ButLast(p, 4)))

-----------------------------------------------------------------------------
(* The properties.                                                         *)

\* C1: every payload the encoder returns ends with 4 upper-case hexadecimal
\* digits that are the CRC16 of all the characters before them, which end
\* with the header "6304".
C1_ChecksumLaw == Encoded => Checksummed(payload)

\* C2: every payload is the fields 00, 01, 29, 52, 53, optionally 54, 58, 59,
\* optionally 62, and 63 last, in this order, with "000201", "010212" (also
\* for amount 0), "52044814", "5303764", "5802TH" and, for the configured
\* name, "5913GOOD SALE POS".
C2_FieldOrder ==
    Encoded =>
        LET f    == PayloadFields
            tags == TagsOf(f.fields)
            head == <<Tag("0", "0"), Tag("0", "1"), Tag("2", "9"),
                      Tag("5", "2"), Tag("5", "3")>>
            mid  == <<Tag("5", "8"), Tag("5", "9")>>
        IN /\ f.ok
           /\ tags \in {head \o a \o mid \o d \o <<Tag("6", "3")>> :
                            a \in {<<>>, <<Tag("5", "4")>>},
                            d \in {<<>>, <<Tag("6", "2")>>}}
           /\ StartsWith(payload, PayloadFormatIndicator \o PointOfInitiation)
           /\ FieldValue(f.fields, Tag("5", "2")) = <<52, 56, 49, 52>>
           /\ FieldValue(f.fields, Tag("5", "3")) = <<55, 54, 52>>
           /\ FieldValue(f.fields, Tag("5", "8")) = <<84, 72>>
           /\ (merchant_name = ConfiguredName =>
                   Contains(payload, <<"5", "9", "1", "3">> \o ConfiguredName))
           /\ Len(FieldValue(f.fields, Tag("6", "3"))) = 4

\* C3: the value of the tag-29 field is itself fields: 00 with the 16
\* characters A000000677010111, then 01 with the formatted identifier.
C3_MerchantInfoIsTLV ==
    (Encoded /\ AsConfigured /\ payload # <<>>) =>
        /\ HasField(PayloadFields.fields, Tag("2", "9"))
        /\ LET sub == ParseTLV(FieldValue(PayloadFields.fields, Tag("2", "9")))
           IN /\ sub.ok
              /\ Len(sub.fields) = 2
              /\ sub.fields[1] =
                     [tag   |-> Tag("0", "0"),
                      value |-> EncodeUtf8(SubSeq(MerchantInfoPrefix, 5, 20))]
              /\ sub.fields[2] =
                     [tag   |-> Tag("0", "1"),
                      value |-> EncodeUtf8(FormatPromptpayId(promptpay_id))]

\* C4: the tag-29 field announces its length in exactly 2 decimal digits,
\* and that length is the length of the value that follows: the field after
\* it, "52044814", starts right behind that many characters.
C4_MerchantInfoLength ==
    (Encoded /\ payload # <<>>) =>
        /\ SubSeq(payload, 13, 14) = <<"2", "9">>
        /\ payload[15] \in Range(DigitChars)
        /\ payload[16] \in Range(DigitChars)
        /\ LET n == 10 * (Ord(payload[15]) - 48) + (Ord(payload[16]) - 48)
           IN /\ n = Len(MerchantInfo(promptpay_id))
              /\ SubSeq(payload, 17, 16 + n) = MerchantInfo(promptpay_id)
              /\ SubSeq(payload, 17 + n, 24 + n) = MerchantCategoryCode

\* C5: _format_promptpay_id drops every character that is not a digit; 10
\* digits left give "0066" and the last 9 of them ("0812345678" gives
\* "0066812345678"), 13 digits left are returned as they are.
C5_NormalizePhoneAndNationalId ==
    Formatted =>
        LET digits == SelectSeq(promptpay_id, IsDigit)
        IN /\ Len(digits) = 10 =>
                  /\ formatted_id = <<"0", "0", "6", "6">> \o SubSeq(digits, 2, 10)
                  /\ Len(formatted_id) = 13
           /\ Len(digits) = 13 => formatted_id = digits
           /\ promptpay_id = <<"0", "8", "1", "2", "3", "4", "5", "6", "7", "8">> =>
                  formatted_id = <<"0", "0", "6", "6", "8", "1", "2", "3", "4",
                                   "5", "6", "7", "8">>

\* C5 happens: a phone number written with dashes has been normalised.
C5_PhoneWithDashesNormalized ==
    /\ Formatted
    /\ promptpay_id = <<"0", "8", "1", "-", "2", "3", "4", "-", "5", "6", "7", "8">>
    /\ formatted_id = <<"0", "0", "6", "6", "8", "1", "2", "3", "4", "5", "6",
                        "7", "8">>

\* C6: an identifier of any other number of digits, fewer or more, comes out
\* exactly 13 characters long, its digits first and "0" after them ("12345"
\* gives "1234500000000").
C6_OtherLengthsBecome13Digits ==
    Formatted =>
        LET digits == SelectSeq(promptpay_id, IsDigit)
        IN Len(digits) \notin {10, 13} =>
               /\ Len(formatted_id) = 13
               /\ \A i \in 1..13 :
                      formatted_id[i] = IF i <= Len(digits) THEN digits[i] ELSE "0"

\* The amount field of the payload, as a scanner reads it.
HasAmountField == HasField(PayloadFields.fields, Tag("5", "4"))

\* C7: the payload has a tag-54 field exactly when amount > 0, and then its
\* value is the amount with 2 fractional digits, announced by its number of
\* characters in 2 digits (10.70 gives "540510.70").
C7_AmountFieldIffPositive ==
    (Encoded /\ AsConfigured) =>
        /\ HasAmountField <=> enc_amount > 0
        /\ enc_amount > 0 =>
               /\ FieldValue(PayloadFields.fields, Tag("5", "4")) =
                      EncodeUtf8(AmountStr(enc_amount))
               /\ Contains(payload, TransactionCurrency \o <<"5", "4">>
                                    \o Pad2(Len(AmountStr(enc_amount)))
                                    \o AmountStr(enc_amount) \o CountryCode)
        /\ enc_amount = 1070 =>
               Contains(payload, <<"5", "4", "0", "5", "1", "0", ".", "7", "0">>)

Amount12550Len5 == <<"5", "4", "0", "5", "1", "2", "5", ".", "5", "0">>

Amount12550Len6 == <<"5", "4", "0", "6", "1", "2", "5", ".", "5", "0">>

C9_MerchantNameTruncatedSafely ==
    (Encoded /\ Encodable(merchant_name)
             /\ enc_ref1 = None /\ enc_ref2 = None) =>
        LET kept == SafeTruncate(merchant_name, MaxFieldBytes)
        IN /\ Len(EncodeUtf8(kept)) <= MaxFieldBytes
           /\ Contains(payload, CountryCode \o <<"5", "9">>
                                \o Pad2(Len(EncodeUtf8(kept))) \o kept \o CrcHeader)

\* The sub-field of a reference cut to whole characters within 25 bytes.
SafeRefField(tag, ref) ==
    tag \o Pad2(Len(EncodeUtf8(SafeTruncate(ref, MaxFieldBytes))))
        \o SafeTruncate(ref, MaxFieldBytes)

\* C10: a reference of more than 25 bytes, also one whose 25th byte is inside
\* a character, is cut to whole characters within 25 bytes, and the encoder
\* returns a complete payload with its checksum.
C10_OversizedRefTruncated ==
    (Encoded /\ AsConfigured) =>
        /\ (Oversized(enc_ref1) /\ (enc_ref2 = None \/ Encodable(enc_ref2))) =>
               /\ Checksummed(payload)
               /\ Contains(payload, SafeRefField(<<"0", "1">>, enc_ref1))
        /\ (Oversized(enc_ref2) /\ (enc_ref1 = None \/ Encodable(enc_ref1))) =>
               /\ Checksummed(payload)
               /\ Contains(payload, SafeRefField(<<"0", "2">>, enc_ref2))

\* A reference is present: `if ref:` holds of it.
RefPresent == Truthy(enc_ref1) \/ Truthy(enc_ref2)

\* The sub-fields of the references that are present, ref1 before ref2, each
\* cut to whole characters within 25 bytes.
ExpectedAdditionalData ==
    (IF Truthy(enc_ref1) /\ Encodable(enc_ref1)
     THEN SafeRefField(<<"0", "1">>, enc_ref1) ELSE <<>>)
    \o (IF Truthy(enc_ref2) /\ Encodable(enc_ref2)
        THEN SafeRefField(<<"0", "2">>, enc_ref2) ELSE <<>>)

\* The payload without its checksum field: payload[:-8].
BeforeChecksum == ButLast(payload, 8)

\* C11: the payload has a tag-62 field exactly when a reference is present;
\* the value of the field is sub-field 01 for ref1 and sub-field 02 for ref2,
\* those that are present, in this order (ref1 "ORDER123" alone gives
\* "0108ORDER123").
C11_AdditionalDataIffRefPresent ==
    (Encoded /\ AsConfigured) =>
        /\ HasField(PayloadFields.fields, Tag("6", "2")) <=> RefPresent
        /\ RefPresent =>
               \E d1, d2 \in Range(DigitChars) :
                   EndsWith(BeforeChecksum,
                            <<"5", "9", "1", "3">> \o ConfiguredName
                            \o <<"6", "2", d1, d2>> \o ExpectedAdditionalData)
        /\ ~RefPresent =>
               EndsWith(BeforeChecksum, <<"5", "9", "1", "3">> \o ConfiguredName)
        /\ (enc_ref1 = Order123 /\ enc_ref2 = None) =>
               EndsWith(BeforeChecksum,
                        <<"6", "2", "1", "2", "0", "1", "0", "8">> \o Order123)

\* C12: the tag-62 field announces, in 2 decimal digits, the number of bytes
\* of its value, also when a reference has multi-byte characters.
C12_AdditionalDataLengthInBytes ==
    (Encoded /\ AsConfigured /\ payload # <<>> /\ RefPresent) =>
        EndsWith(BeforeChecksum,
                 <<"6", "2">> \o Pad2(Len(EncodeUtf8(ExpectedAdditionalData)))
                 \o ExpectedAdditionalData)

\* The encoding fails: the name or a reference cannot be encoded, or its
\* first 25 bytes cannot be decoded.
EncodeFails ==
    \/ ~MerchantNameField(merchant_name).ok
    \/ ~Ref1Field(enc_ref1).ok
    \/ ~Ref2Field(enc_ref2).ok

\* C14: when the encoding fails the encoder raises: it does not return a
\* value.
C14_FailedEncodeRaises == EncodeFails => ~Encoded

ConfiguredIdNormalized ==
    <<"0", "0", "6", "6", "1", "2", "3", "4", "5", "6", "7", "8", "9">>

IsTest001Call ==
    /\ AsConfigured
    /\ enc_amount = 1070
    /\ enc_ref1 = Test001
    /\ enc_ref2 = None

\* C20, as the specification has it: the payload of encode(10.70, "TEST-001")
\* contains "62", "0C", "01", "08" and "TEST-001".
C20_AdditionalDataLengthHex ==
    (Encoded /\ IsTest001Call) =>
        Contains(payload, <<"6", "2", "0", "C", "0", "1", "0", "8">> \o Test001)

\* C20, as the code has it: the payload of encode(10.70, "TEST-001") on the
\* manager as constructed has the additional-data field "62", "12", "01",
\* "08" and "TEST-001" right before the checksum field: the length 12 is in
\* decimal digits.
C20_AdditionalDataLengthDecimal ==
    (Encoded /\ IsTest001Call) =>
        EndsWith(BeforeChecksum,
                 <<"6", "2", "1", "2", "0", "1", "0", "8">> \o Test001)

\* C20 happens: encode(10.70, "TEST-001") has returned its payload.
C20_Test001Encoded ==
    /\ Encoded
    /\ IsTest001Call
    /\ Contains(payload, <<"0", "1", "0", "8">> \o Test001 \o CrcHeader)

\* C13: the encoder is deterministic: a call returns what the call before
\* it returned for the same arguments, whatever generate, verify, cancel and
\* cleanup did between the two.
C13_EncoderDeterministic ==
    [][(Encoded /\ CreatePromptpayPayloadCall) => payload' = payload]_vars

\* A payment of the manager has that status.
SomePayment(status) ==
    \E p \in DOMAIN pending_payments : pending_payments[p].status = status

\* C13 happens: the encoder has returned, and payments have been generated,
\* one verified, one cancelled; the encoder is called again from here.
C13_EncodedAmongPayments ==
    /\ Encoded
    /\ SomePayment("completed")
    /\ SomePayment("cancelled")
    /\ ENABLED CreatePromptpayPayloadCall

\* The result of a generate call, of the method or through the route.
IsGenerateResult ==
    response.op \in {"generate_promptpay_qr", "POST /generate-qr"}

\* C15: when the encoding fails, generate_promptpay_qr does not return
\* success, returns no empty payload and stores no payment: every payment
\* stored and every payload returned with success is a checksummed payload,
\* not the empty result of a failed encoding.
C15_FailedEncodeFailsGenerate ==
    /\ \A p \in DOMAIN pending_payments : pending_payments[p].payload # <<>>
    /\ (IsGenerateResult /\ response.success) => response.payload # <<>>

\* An amount that is negative or not a number.
NegativeOrNonNumeric(amount) ==
    \/ amount.kind # "number"
    \/ amount.val < 0

\* C16: a /generate-qr request with a negative or non-numeric amount is
\* answered with a failure, and the pending payments are as they were: the
\* manager was not called.
C16_BadAmountRejected ==
    [][(GenerateQrPayment /\ NegativeOrNonNumeric(response'.request[1])) =>
           /\ ~response'.success
           /\ response'.http_status \in {400, 500}
           /\ pending_payments' = pending_payments]_vars

\* C17: a call of the encoder leaves the pending payments, the merchant
\* identifier and the merchant name as they were, also when the encoding
\* fails.
C17_EncoderChangesNoState ==
    [][CreatePromptpayPayloadCall =>
           /\ pending_payments' = pending_payments
           /\ promptpay_id' = promptpay_id
           /\ merchant_name' = merchant_name]_vars

\* C17 happens: the encoder has returned, with a failure, on a manager that
\* has payments.
C17_FailedEncodeAmongPayments ==
    /\ Encoded
    /\ EncodeFails
    /\ payload = <<>>
    /\ pending_payments # NoPayments

\* What the encoder call returns when it runs alone on the manager as
\* constructed.
PayloadAlone ==
    PayloadOf(ConfiguredId, ConfiguredName, enc_amount, enc_ref1, enc_ref2)

\* C18: every encoder call in a thread returns what the same call returns
\* alone, whatever other encoder calls and generate, verify, cancel and
\* cleanup ran between its steps.
C18_ConcurrentEncodersAgree ==
    \A t \in Threads :
        threads[t].pc = "returned" => threads[t].payload = PayloadAlone

\* C18 happens: two encoder calls have returned, and payments were
\* generated, one verified, one cancelled, beside them.
C18_TwoThreadsReturned ==
    /\ \A t \in Threads : threads[t].pc = "returned"
    /\ SomePayment("completed")
    /\ SomePayment("cancelled")

\* What generate_promptpay_qr stored of a payment for its payer.
StoredForPayer(payment_data) ==
    <<payment_data.payload, payment_data.amount, payment_data.ref1,
      payment_data.ref2, payment_data.expires_at>>

\* C21: the payload, amount, ref1, ref2 and expires_at stored for a payment
\* are never changed, by verify, cancel, status, cleanup or further generate
\* calls.
C21_StoredPaymentImmutable ==
    [][\A p \in DOMAIN pending_payments :
           p \in DOMAIN pending_payments' =>
               StoredForPayer(pending_payments'[p]) =
                   StoredForPayer(pending_payments[p])]_vars

\* C21 happens: a payment was generated, verified after a tick, and another
\* payment was generated after it and cancelled.
C21_TwoPaymentsProcessed ==
    /\ Cardinality(DOMAIN pending_payments) = 2
    /\ \E p, q \in DOMAIN pending_payments :
           /\ pending_payments[p].status = "completed"
           /\ pending_payments[p].verified_at > pending_payments[p].created_at
           /\ pending_payments[q].created_at > pending_payments[p].created_at
           /\ pending_payments[q].status = "cancelled"
           /\ pending_payments[p].payload # <<>>

\* The expiry time of the payment has passed at time t.
ExpiredAt(payment_data, t) == t > payment_data.expires_at

\* C23: after cleanup_expired_payments no payment whose expiry time has
\* passed is left in the pending payments, and the count returned is the
\* number of payments removed.
C23_CleanupDeletesExpired ==
    [][CleanupExpiredPayments =>
           /\ \A p \in DOMAIN pending_payments' :
                  ~ExpiredAt(pending_payments'[p], now)
           /\ response'.count =
                  Cardinality(DOMAIN pending_payments)
                  - Cardinality(DOMAIN pending_payments')]_vars

\* C24: a completed payment stays completed, whatever cancel, cleanup,
\* verify and status calls follow one at a time, and cancel_payment answers
\* 'Cannot cancel completed payment' for it.
C24_CompletedIsTerminal ==
    [][\A p \in DOMAIN pending_payments :
           pending_payments[p].status = "completed" =>
               /\ p \in DOMAIN pending_payments'
               /\ pending_payments'[p].status = "completed"
               /\ (CancelPayment(p) /\ response'.op = "cancel_payment") =>
                      /\ ~response'.success
                      /\ response'.error = "Cannot cancel completed payment"]_vars

\* C24 happens: the cancellation of a completed payment has been refused.
C24_CancelOfCompletedRefused ==
    /\ response.op = "cancel_payment"
    /\ response.error = "Cannot cancel completed payment"
    /\ SomePayment("completed")

\* C26: a cancelled payment never becomes completed: no verify_payment,
\* with or without a slip, completes it or returns success for it.
C26_CancelledNeverCompleted ==
    [][\A p \in DOMAIN pending_payments :
           pending_payments[p].status = "cancelled" =>
               /\ pending_payments'[p].status # "completed"
               /\ ~(/\ response'.op = "verify_payment"
                    /\ response'.success
                    /\ response'.payment_id = p
                    /\ response' # response)]_vars

\* C27: once the time is past expires_at = created_at + 15 minutes, every
\* verify_payment of the payment answers 'Payment expired', and a payment
\* that is not completed by then is never completed, with or without a
\* cleanup.
C27_NoCompletionAfterExpiry ==
    [][\A p \in DOMAIN pending_payments :
           ExpiredAt(pending_payments[p], now) =>
               /\ pending_payments[p].expires_at =
                      pending_payments[p].created_at + ExpiryMinutes
               /\ pending_payments[p].status # "completed" =>
                      pending_payments'[p].status # "completed"
               /\ \A slip_image_data \in {"None", "slip"} :
                      (VerifyPayment(p, slip_image_data)
                       /\ response'.op = "verify_payment") =>
                          /\ ~response'.success
                          /\ response'.error = "Payment expired"]_vars

\* C27 happens: a verify_payment past the expiry of the payments has been
\* answered 'Payment expired', one payment marked by a cleanup and one
\* completed in time.
C27_VerifyAfterExpiryRefused ==
    /\ response.op = "verify_payment"
    /\ response.error = "Payment expired"
    /\ SomePayment("expired")
    /\ SomePayment("completed")
    /\ \A p \in DOMAIN pending_payments : ExpiredAt(pending_payments[p], now)

\* C28: a verify_payment or cancel_payment that returns success = False
\* leaves the whole map of pending payments as it was.
C28_FailureChangesNoPayment ==
    [][((VerifyPaymentCall \/ CancelPaymentCall) /\ ~response'.success) =>
           pending_payments' = pending_payments]_vars

\* C28 happens: a verification without slip has failed, and the cancellation
\* of a completed payment has been refused before it.
C28_VerificationFailed ==
    /\ response.op = "verify_payment"
    /\ response.error = "Payment verification failed"
    /\ SomePayment("completed")
    /\ SomePayment("pending")

-----------------------------------------------------------------------------
(* _calculate_crc16 in the steps of its loops, on the bytes of a str.      *)

MaxCrcChars == 2

CrcChars == {"0", "1", "A", " ", "U+00E9", "U+0E01", "U+1F600"}

CheckString == <<"1", "2", "3", "4", "5", "6", "7", "8", "9">>

CrcStrings ==
    UNION {[1..n -> CrcChars] : n \in 0..MaxCrcChars} \cup {CheckString}

\* crc ^= (byte << 8), for the next byte of data.encode('utf-8')
Crc16TakesByte ==
    /\ crc_run.pc = "loop"
    /\ crc_run.bit = 8
    /\ crc_run.byte < Len(crc_run.data)
    /\ crc_run' = [crc_run EXCEPT
                       !.byte = @ + 1,
                       !.bit = 0,
                       !.crc = BitXor(@, crc_run.data[crc_run.byte + 1] * 256)]
    /\ UNCHANGED <<codec_vars, manager_vars, race_vars, cache_vars,
                   loyalty_vars>>

\* One pass of for _ in range(8)
Crc16BitStep ==
    /\ crc_run.pc = "loop"
    /\ crc_run.bit < 8
    /\ crc_run' = [crc_run EXCEPT !.bit = @ + 1, !.crc = Crc16Bit(@)]
    /\ UNCHANGED <<codec_vars, manager_vars, race_vars, cache_vars,
                   loyalty_vars>>

\* return crc
Crc16Returns ==
    /\ crc_run.pc = "loop"
    /\ crc_run.bit = 8
    /\ crc_run.byte = Len(crc_run.data)
    /\ crc_run' = [crc_run EXCEPT !.pc = "returned"]
    /\ UNCHANGED <<codec_vars, manager_vars, race_vars, cache_vars,
                   loyalty_vars>>

InitCrc ==
    /\ promptpay_id = ConfiguredId
    /\ merchant_name = ConfiguredName
    /\ enc_amount = 0
    /\ enc_ref1 = None
    /\ enc_ref2 = None
    /\ payload = <<>>
    /\ formatted_id = <<>>
    /\ returned = {}
    /\ pending_payments = NoPayments
    /\ now = 0
    /\ response = NoResult
    /\ threads = NoThreads
    /\ \E data \in CrcStrings : crc_run = CrcRunOn(EncodeUtf8(data))
    /\ NoCallsYet /\ CacheAsConstructed /\ LoyaltyAsInstalled

NextCrc == Crc16TakesByte \/ Crc16BitStep \/ Crc16Returns

SpecCrc == InitCrc /\ [][NextCrc]_vars

(* The reference: CRC-16/CCITT-FALSE as a shift register of 16 bits, the   *)
(* message fed in bit by bit, most significant bit of each byte first, the *)
(* register started with all ones, feedback x^16 + x^12 + x^5 + 1, nothing *)
(* reflected and no final XOR.                                             *)

RegisterBits == 1..16

\* The register positions the feedback is added to: x^12, x^5 and x^0, the
\* register written with x^15 at position 1.
FeedbackAt == {16 - 12, 16 - 5, 16 - 0}

AllOnes == [k \in RegisterBits |-> 1]

\* The bits of a byte, most significant first
BitsOfByte(b) == [k \in 1..8 |-> (b \div 2 ^ (8 - k)) % 2]

RegisterShift(reg, bit) ==
    LET feedback == (reg[1] + bit) % 2
    IN  [k \in RegisterBits |->
            LET shifted == IF k < 16 THEN reg[k + 1] ELSE 0
            IN  IF k \in FeedbackAt THEN (shifted + feedback) % 2 ELSE shifted]

\* The register after the first n of the bits.  (The comparison with the
\* empty register makes the model checker evaluate each register in turn.)
RECURSIVE RegisterAfter(_, _, _)
RegisterAfter(reg, bits, n) ==
    IF n = 0 \/ reg = <<>> THEN reg
    ELSE LET before == RegisterAfter(reg, bits, n - 1)
         IN  IF before = <<>> THEN before
             ELSE RegisterShift(before, bits[n])

RECURSIVE RegisterAfterBytes(_, _, _)
RegisterAfterBytes(reg, bytes, n) ==
    IF n = 0 \/ reg = <<>> THEN reg
    ELSE LET before == RegisterAfterBytes(reg, bytes, n - 1)
         IN  IF before = <<>> THEN before
             ELSE RegisterAfter(before, BitsOfByte(bytes[n]), 8)

RECURSIVE RegisterValue(_, _)
RegisterValue(reg, n) ==
    IF n = 0 THEN 0 ELSE 2 * RegisterValue(reg, n - 1) + reg[n]

ReferenceCrc16(bytes) ==
    RegisterValue(RegisterAfterBytes(AllOnes, bytes, Len(bytes)), 16)

\* The check value of CRC-16/CCITT-FALSE: 0x29B1 for "123456789".
CheckValue == 2 * 4096 + 9 * 256 + 11 * 16 + 1

\* C22: for the bytes of every bounded str, _calculate_crc16 returns the
\* reference CRC-16/CCITT (polynomial 0x1021, initial value 0xFFFF, no final
\* XOR, most significant bit first), and crc is within 0..0xFFFF after every
\* step of its loops.
C22_CrcIsCcittFalse ==
    /\ crc_run.crc \in 0..65535
    /\ crc_run.pc = "returned" =>
           /\ crc_run.crc = ReferenceCrc16(crc_run.data)
           /\ crc_run.crc = Crc16OfBytes(crc_run.data)
           /\ crc_run.data = EncodeUtf8(CheckString) =>
                  crc_run.crc = CheckValue

\* C22 happens: the loop has returned the checksum of bytes with and
\* without the high bit.
C22_CrcReturned ==
    /\ crc_run.pc = "returned"
    /\ Len(crc_run.data) > 3
    /\ \E i, j \in 1..Len(crc_run.data) :
           crc_run.data[i] >= 128 /\ crc_run.data[j] < 128

-----------------------------------------------------------------------------
(* verify_payment and cancel_payment called from request threads on the    *)
(* one manager of routes/payment.py.  The manager holds no lock: a thread  *)
(* can be switched out between the checks a method makes and its writes.   *)
(* Each thread makes one call.                                             *)

Returned(call, result) == [call EXCEPT !.pc = "returned", !.result = result]

CallStep(t, call) ==
    /\ calls' = [calls EXCEPT ![t] = call]
    /\ UNCHANGED <<codec_vars, now, response, threads, crc_vars, cache_vars,
                   loyalty_vars>>

\* verify_payment up to its checks: the lookup and the expiry.
VerifyPaymentChecks(t) ==
    /\ calls[t].pc = "idle"
    /\ \E payment_id \in PaymentIds, slip_image_data \in {"None", "slip"} :
           LET call == [NoCall EXCEPT !.op = "verify_payment",
                                      !.payment_id = payment_id,
                                      !.slip_image_data = slip_image_data]
           IN  IF payment_id \notin DOMAIN pending_payments
               THEN CallStep(t, Returned(call,
                        Result("verify_payment", FALSE, "",
                               "Payment ID not found", <<>>, "", 0)))
               ELSE IF now > pending_payments[payment_id].expires_at
               THEN CallStep(t, Returned(call,
                        Result("verify_payment", FALSE, "",
                               "Payment expired", <<>>, "", 0)))
               ELSE CallStep(t, [call EXCEPT !.pc = "verifying"])
    /\ UNCHANGED pending_payments

\* _simulate_payment_verification, and what verify_payment does with its
\* result.
VerifyPaymentCompletes(t) ==
    /\ calls[t].pc = "verifying"
    /\ \E verified \in (IF calls[t].slip_image_data # "None"
                        THEN {TRUE} ELSE BOOLEAN) :
           IF verified
           THEN /\ pending_payments' =
                       [pending_payments EXCEPT ![calls[t].payment_id] =
                            [@ EXCEPT !.status = "completed",
                                      !.verified_at = now,
                                      !.slip_image = calls[t].slip_image_data]]
                /\ CallStep(t, Returned(calls[t],
                       Result("verify_payment", TRUE, calls[t].payment_id,
                              "", <<>>, "completed", 0)))
           ELSE /\ UNCHANGED pending_payments
                /\ CallStep(t, Returned(calls[t],
                       Result("verify_payment", FALSE, "",
                              "Payment verification failed", <<>>, "", 0)))

\* cancel_payment up to its checks: the lookup and the status.
CancelPaymentChecks(t) ==
    /\ calls[t].pc = "idle"
    /\ \E payment_id \in PaymentIds :
           LET call == [NoCall EXCEPT !.op = "cancel_payment",
                                      !.payment_id = payment_id]
           IN  IF payment_id \notin DOMAIN pending_payments
               THEN CallStep(t, Returned(call,
                        Result("cancel_payment", FALSE, "",
                               "Payment ID not found", <<>>, "", 0)))
               ELSE IF pending_payments[payment_id].status = "completed"
               THEN CallStep(t, Returned(call,
                        Result("cancel_payment", FALSE, "",
                               "Cannot cancel completed payment", <<>>, "",
                               0)))
               ELSE CallStep(t, [call EXCEPT !.pc = "cancelling"])
    /\ UNCHANGED pending_payments

\* cancel_payment from its writes on.
CancelPaymentWrites(t) ==
    /\ calls[t].pc = "cancelling"
    /\ pending_payments' =
           [pending_payments EXCEPT ![calls[t].payment_id] =
                [@ EXCEPT !.status = "cancelled", !.cancelled_at = now]]
    /\ CallStep(t, Returned(calls[t],
           Result("cancel_payment", TRUE, calls[t].payment_id, "", <<>>,
                  "cancelled", 0)))

CallerThread ==
    \E t \in Threads :
        \/ VerifyPaymentChecks(t)
        \/ VerifyPaymentCompletes(t)
        \/ CancelPaymentChecks(t)
        \/ CancelPaymentWrites(t)

NextRace == CallerThread \/ Tick \/ GeneratePromptpayQrCall

SpecRace == InitManager /\ [][NextRace]_vars

\* C25: when verify_payment and cancel_payment of one payment run in two
\* threads, a payment that was completed never ends up cancelled, and the
\* two calls never both return success.
C25_VerifyCancelExclusive ==
    /\ \A p \in DOMAIN pending_payments :
           pending_payments[p].verified_at # NoTime =>
               pending_payments[p].status # "cancelled"
    /\ \A t, u \in Threads :
           ~(/\ calls[t].op = "verify_payment"
             /\ calls[u].op = "cancel_payment"
             /\ calls[t].payment_id = calls[u].payment_id
             /\ calls[t].result.success
             /\ calls[u].result.success)

-----------------------------------------------------------------------------
(* MemoryCache of cache.py: an OrderedDict of entries, the least recently  *)
(* used first, every method under the one lock.                            *)

MaxCacheSize == 3

CacheKeys == {"a", "b", "c"}
CacheValues == {"v1", "v2"}

\* The ttl arguments, <<>> for ttl=None and <<n>> for a number: absent
\* (default_ttl), a quarter of an hour, and one that has expired already.
Ttls == {<<>>, <<TickMinutes>>, <<0 - TickMinutes>>}

\* if ttl is None: ttl = self.default_ttl
TtlOrDefault(ttl) == IF ttl = <<>> THEN DefaultTtl ELSE ttl[1]

Entry(key, value, ttl) ==
    [key |-> key, value |-> value, expires_at |-> now + ttl,
     created_at |-> now]

KeysOf(c) == {c[i].key : i \in 1..Len(c)}

\* self.cache[key]
EntryOf(c, key) == c[CHOOSE i \in 1..Len(c) : c[i].key = key]

\* _is_expired(entry)
IsExpired(entry) == now > entry.expires_at

\* del self.cache[key]
Deleted(c, key) ==
    LET Other(e) == e.key # key
    IN  SelectSeq(c, Other)

\* self.cache.move_to_end(key)
MoveToEnd(c, key) == Append(Deleted(c, key), EntryOf(c, key))

\* self.cache[key] = entry: a key that is there keeps its place.
Assigned(c, entry) ==
    IF entry.key \in KeysOf(c)
    THEN [i \in 1..Len(c) |-> IF c[i].key = entry.key THEN entry ELSE c[i]]
    ELSE Append(c, entry)

\* _cleanup_expired()
CleanupExpired(c) ==
    LET Fresh(e) == ~IsExpired(e)
    IN  SelectSeq(c, Fresh)

\* _evict_lru(): while len(self.cache) >= self.max_size: popitem(last=False)
RECURSIVE EvictLru(_, _)
EvictLru(c, size) ==
    IF Len(c) >= size /\ c # <<>> THEN EvictLru(Tail(c), size) ELSE c

CacheStep(c, result) ==
    /\ cache' = c
    /\ cache_returned' = result
    /\ UNCHANGED <<codec_vars, manager_vars, max_size, crc_vars, race_vars,
                   loyalty_vars>>

\* get(key)
CacheGet(key) ==
    IF key \notin KeysOf(cache)
    THEN CacheStep(cache, [NoCacheResult EXCEPT !.op = "get", !.key = key])
    ELSE IF IsExpired(EntryOf(cache, key))
    THEN CacheStep(Deleted(cache, key),
                   [NoCacheResult EXCEPT !.op = "get", !.key = key])
    ELSE CacheStep(MoveToEnd(cache, key),
                   [NoCacheResult EXCEPT !.op = "get", !.key = key,
                                         !.value = EntryOf(cache, key).value])

\* set(key, value, ttl)
CacheSet(key, value, ttl) ==
    LET seconds == TtlOrDefault(ttl)
        written == MoveToEnd(Assigned(cache, Entry(key, value, seconds)), key)
    IN  CacheStep(EvictLru(CleanupExpired(written), max_size),
                  [NoCacheResult EXCEPT !.op = "set", !.key = key,
                                        !.ttl = seconds])

\* delete(key)
CacheDelete(key) ==
    CacheStep(Deleted(cache, key),
              [NoCacheResult EXCEPT !.op = "delete", !.key = key,
                                    !.value = IF key \in KeysOf(cache)
                                              THEN "True" ELSE "False"])

\* clear()
CacheClear == CacheStep(<<>>, [NoCacheResult EXCEPT !.op = "clear"])

CacheGetCall == \E key \in CacheKeys : CacheGet(key)

CacheSetCall ==
    \E key \in CacheKeys, value \in CacheValues, ttl \in Ttls :
        CacheSet(key, value, ttl)

CacheDeleteCall == \E key \in CacheKeys : CacheDelete(key)

InitCache ==
    /\ promptpay_id = ConfiguredId
    /\ merchant_name = ConfiguredName
    /\ enc_amount = 0
    /\ enc_ref1 = None
    /\ enc_ref2 = None
    /\ payload = <<>>
    /\ formatted_id = <<>>
    /\ returned = {}
    /\ pending_payments = NoPayments
    /\ now = 0
    /\ response = NoResult
    /\ threads = NoThreads
    /\ \E size \in 1..MaxCacheSize : CacheConstructed(size)
    /\ CrcIdle /\ NoCallsYet /\ LoyaltyAsInstalled

NextCache ==
    CacheGetCall \/ CacheSetCall \/ CacheDeleteCall \/ CacheClear \/ Tick

SpecCache == InitCache /\ [][NextCache]_vars

\* What get(key) would return in the state after the step.
WouldGet(key) ==
    IF \E i \in 1..Len(cache') :
           cache'[i].key = key /\ ~(now' > cache'[i].expires_at)
    THEN EntryOf(cache', key).value
    ELSE "None"

\* C29: in a MemoryCache of any max_size >= 1, right after set(k, v) with a
\* ttl that has not expired, get(k) returns v: the eviction of set never
\* removes the entry set has just written.
C29_SetThenGet ==
    [][\A key \in CacheKeys, value \in CacheValues, ttl \in Ttls :
           (TtlOrDefault(ttl) > 0 /\ CacheSet(key, value, ttl)) =>
               /\ WouldGet(key) = value
               /\ cache' # <<>>
               /\ cache'[Len(cache')].key = key]_vars

-----------------------------------------------------------------------------
(* The loyalty routes: POST /loyalty/members, /loyalty/earn and            *)
(* /loyalty/redeem, each request in a thread with a database connection of *)
(* its own.  The SELECT of a request runs outside any transaction; its     *)
(* INSERT and UPDATE are one transaction, committed at conn.commit().      *)

MaxMembers == 2
MaxTransactions == 3

\* str(uuid.uuid4())[:8].upper() of the members registered
RegisteredIds == <<"DEMO0001", "4F1C2A9B">>

UnknownId == "00000000"

\* data['amount'] of /loyalty/earn, in baht
EarnAmounts == {5, 100, 250}

\* data['points_to_redeem'] of /loyalty/redeem
RedeemPoints == {10, 600}

\* SELECT * FROM loyalty_members WHERE member_id = ?; fetchone()
SelectMember(member_id) ==
    IF \E id \in DOMAIN loyalty_members :
           loyalty_members[id].member_id = member_id
    THEN LET id == CHOOSE id \in DOMAIN loyalty_members :
                       loyalty_members[id].member_id = member_id
         IN  MemberRow(id, loyalty_members[id])
    ELSE NoMemberRow

\* A row of points_transactions
Transaction(id, transaction_type, points) ==
    [member_id |-> id, transaction_type |-> transaction_type,
     points |-> points]

\* The requests that have read their member and not written yet
Writing == {t \in Threads : requests[t].pc \in {"earning", "redeeming"}}

LoyaltyStep(t, request) ==
    /\ requests' = [requests EXCEPT ![t] = request]
    /\ UNCHANGED <<codec_vars, manager_vars, crc_vars, race_vars, cache_vars>>

Answered(request, http_status, new_balance) ==
    [request EXCEPT !.pc = "answered", !.http_status = http_status,
                    !.new_balance = new_balance]

\* register_member(): a new member with 0 points, tier Bronze
RegisterMember ==
    /\ Len(loyalty_members) < MaxMembers
    /\ loyalty_members' =
           Append(loyalty_members,
                  Member(RegisteredIds[Len(loyalty_members) + 1], 0, "Bronze"))
    /\ UNCHANGED <<points_transactions, requests>>
    /\ UNCHANGED <<codec_vars, manager_vars, crc_vars, race_vars, cache_vars>>

\* earn_points() up to its writes: the member is read, the points computed.
EarnPointsSelects(t) ==
    /\ requests[t].pc = "idle"
    /\ Len(points_transactions) + Cardinality(Writing) < MaxTransactions
    /\ \E member_id \in Range(RegisteredIds) \cup {UnknownId},
          amount \in EarnAmounts :
           LET member == SelectMember(member_id)
               points_earned == amount \div 10
               request == [NoRequest EXCEPT !.route = "/loyalty/earn",
                                            !.member_id = member_id,
                                            !.points = points_earned,
                                            !.member = member]
           IN  IF member = NoMemberRow
               THEN LoyaltyStep(t, Answered(request, 404, 0))
               ELSE IF points_earned <= 0
               THEN LoyaltyStep(t, Answered(request, 400, 0))
               ELSE LoyaltyStep(t, [request EXCEPT !.pc = "earning"])
    /\ UNCHANGED <<loyalty_members, points_transactions>>

\* earn_points() from its INSERT to its answer
EarnPointsCommits(t) ==
    /\ requests[t].pc = "earning"
    /\ LET member == requests[t].member
           new_balance == member.points_balance + requests[t].points
           new_tier == CalculateTier(new_balance)
       IN  /\ points_transactions' =
                  Append(points_transactions,
                         Transaction(member.id, "earn", requests[t].points))
           /\ loyalty_members' =
                  [loyalty_members EXCEPT ![member.id] =
                       [@ EXCEPT !.points_balance = new_balance,
                                 !.tier = IF new_tier # member.tier
                                          THEN new_tier ELSE @]]
           /\ LoyaltyStep(t, Answered(requests[t], 200, new_balance))

\* redeem_points() up to its writes: the member is read, the balance checked.
RedeemPointsSelects(t) ==
    /\ requests[t].pc = "idle"
    /\ Len(points_transactions) + Cardinality(Writing) < MaxTransactions
    /\ \E member_id \in Range(RegisteredIds) \cup {UnknownId},
          points_to_redeem \in RedeemPoints :
           LET member == SelectMember(member_id)
               request == [NoRequest EXCEPT !.route = "/loyalty/redeem",
                                            !.member_id = member_id,
                                            !.points = points_to_redeem,
                                            !.member = member]
           IN  IF member = NoMemberRow
               THEN LoyaltyStep(t, Answered(request, 404, 0))
               ELSE IF member.points_balance < points_to_redeem
               THEN LoyaltyStep(t, Answered(request, 400, 0))
               ELSE LoyaltyStep(t, [request EXCEPT !.pc = "redeeming"])
    /\ UNCHANGED <<loyalty_members, points_transactions>>

\* redeem_points() from its INSERT to its answer
RedeemPointsCommits(t) ==
    /\ requests[t].pc = "redeeming"
    /\ LET member == requests[t].member
           new_balance == member.points_balance - requests[t].points
       IN  /\ points_transactions' =
                  Append(points_transactions,
                         Transaction(member.id, "redeem",
                                     0 - requests[t].points))
           /\ loyalty_members' =
                  [loyalty_members EXCEPT ![member.id] =
                       [@ EXCEPT !.points_balance = new_balance]]
           /\ LoyaltyStep(t, Answered(requests[t], 200, new_balance))

\* The thread takes the next request.
RequestDone(t) ==
    /\ requests[t].pc = "answered"
    /\ LoyaltyStep(t, NoRequest)
    /\ UNCHANGED <<loyalty_members, points_transactions>>

LoyaltyThread ==
    \E t \in Threads :
        \/ EarnPointsSelects(t)
        \/ EarnPointsCommits(t)
        \/ RedeemPointsSelects(t)
        \/ RedeemPointsCommits(t)
        \/ RequestDone(t)

NextLoyalty == RegisterMember \/ LoyaltyThread

SpecLoyalty == InitManager /\ [][NextLoyalty]_vars

\* The sum of the points of the first n rows that belong to member id
RECURSIVE SumOfPoints(_, _, _)
SumOfPoints(rows, id, n) ==
    IF n = 0 THEN 0
    ELSE SumOfPoints(rows, id, n - 1)
         + (IF rows[n].member_id = id THEN rows[n].points ELSE 0)

PointsOnRecord(rows, id) == SumOfPoints(rows, id, Len(rows))

\* C30: the points_balance of every member follows the member's rows of
\* points_transactions: whatever earn and redeem requests run, one after
\* the other or at once, every step changes the balance by the points of
\* the rows it adds, so that no update of the balance is lost.
C30_BalanceFollowsTransactions ==
    [][\A id \in DOMAIN loyalty_members :
           loyalty_members'[id].points_balance
               - loyalty_members[id].points_balance =
           PointsOnRecord(points_transactions', id)
               - PointsOnRecord(points_transactions, id)]_vars

=============================================================================
